---- MODULE Spec2Model ----
(***************************************************************************)
(* A model of the copliot-enigma desktop application's core:               *)
(*   - the capacity estimator of src/src/utils/helpers.py                  *)
(*   - the binary resolver and the BrowserClient session lifecycle and     *)
(*     element-interaction retry loop of src/src/driver/selenium.py, with  *)
(*     its element waits, its version probe and process_elements_chain     *)
(*   - the lookup of scripts/debug_browser_binaries.py                     *)
(*   - the settings store of src/src/utils/settings.py                     *)
(* Floating point megabytes are modelled as whole megabytes; exceptions    *)
(* are modelled by their class name.                                       *)
(***************************************************************************)
EXTENDS Integers, Sequences, FiniteSets, TLC

VARIABLES
    \* ---- capacity estimator (helpers.py) ----
    cap_pc,          \* position inside calculate_max_browsers_or_tabs
    cap_browser,     \* the browser argument
    os_cpu_count,    \* psutil.cpu_count(logical=True); 0 stands for None
    system_info,     \* the SystemInfo snapshot
    probe,           \* the subprocess.Popen object of the probe and what was done to it
    popen_outcome,   \* what subprocess.Popen did in this invocation
    pending,         \* what the try body of _estimate_memory_usage left to do after finally
    avg_memory,      \* value returned by get_browser_memory_usage (0 before it returns)
    cap_result,      \* the BrowserCapacity returned (NoCapacity before that)
    cap_error,       \* the exception raised to the caller, or "none"
    \* ---- filesystem and platform (environment of the binary resolver) ----
    fs,              \* [exists: set of roots, listing: root -> sequence of entries]
    platform_name,   \* platform.system().lower()
    \* ---- _find_binary applied to arbitrary arguments ----
    fb_called, fb_roots, fb_patterns, fb_result,
    \* ---- BrowserClient (selenium.py) ----
    driver,                 \* self.driver: 0 is None, otherwise the session
    wait,                   \* self.wait: 0 is None, otherwise the session it waits on
    initial_window_handle,  \* self.initial_window_handle: 0 is None
    binary_paths,           \* self._binary_paths, or NoPaths for None
    alive,                  \* browser sessions started and not yet ended
    started,                \* sessions started so far (the next session is started + 1)
    last,                   \* the most recent completed client call
    resolved_once,          \* whether the client has resolved the binary paths before
    \* ---- process_element ----
    pe_pc, pe_element, pe_R, pe_retries, pe_attempts, pe_hist, pe_steps, pe_result,
    pe_log,          \* the warnings and errors the call has logged
    pe_sleeps,       \* how often the call has paused (time.sleep(1))
    pe_actions,      \* how often the call has carried out the element's click
    \* ---- process_elements_chain ----
    chain_pc, chain_elements, chain_log,
    \* ---- constructor arguments kept by the client ----
    max_retries, wait_timeout,
    \* ---- wait_for_element and wait_for_clickable_element ----
    wf_op,           \* which of the two was called ("none" before)
    wf_timeout,      \* its timeout argument (NoTimeout for None)
    wf_appears,      \* the second at which the awaited condition becomes true
    wf_effective,    \* the timeout handed to WebDriverWait (NoTimeout: none was built)
    wf_result,       \* "element", "None", or the exception raised
    \* ---- the version probe: _read_binary_version and the script's read_version ----
    rv_op,           \* which of the two was called ("none" before)
    rv_runs,         \* what subprocess.run does for the two commands, in order
    rv_result,       \* [value: the string returned, raised: the exception raised]
    \* ---- SettingsStore (utils/settings.py) ----
    st_file,         \* the file at self.path: whether it exists, and its text
    st_op,           \* the most recent call: "none", "save" or "load"
    st_saves,        \* how many saves there have been
    st_last_saved,   \* the settings handed to the most recent save
    st_loaded,       \* the LLMSettings returned by the most recent load
    \* ---- the diagnostics script next to the client's lookup ----
    dg_called,       \* whether the two have been run
    dg_script,       \* the paths the script reports
    dg_client,       \* the paths the client's _resolve_binary_paths finds
    \* ---- the dashboard's _refresh_metrics (main.py) ----
    ds_pc,           \* "idle", "calling" (inside calculate_max_browsers_or_tabs), "shown"
    ds_card,         \* what the "Simultaneous browsers" card shows
    ds_table,        \* what the system table shows
    ds_error,        \* the exception the except clause logged ("none" without one)
    \* ---- the search roots: _candidate_roots and the script's expand_roots ----
    er_op,           \* which of the two ran ("none" before)
    er_args,         \* the configured roots it was given
    er_roots,        \* the list of roots it returned
    er_found         \* what the binary search over er_roots returned for the browser

capVars == <<cap_pc, cap_browser, os_cpu_count, system_info, probe, popen_outcome,
             pending, avg_memory, cap_result, cap_error>>
envVars == <<fs, platform_name>>
findVars == <<fb_called, fb_roots, fb_patterns, fb_result>>
clientVars == <<driver, wait, initial_window_handle, binary_paths, alive, started, last,
                resolved_once>>
peVars == <<pe_pc, pe_element, pe_R, pe_retries, pe_attempts, pe_hist, pe_steps, pe_result,
            pe_log, pe_sleeps, pe_actions>>
chainVars == <<chain_pc, chain_elements, chain_log>>
cfgVars == <<max_retries, wait_timeout>>
rootsVars == <<er_op, er_args, er_roots, er_found>>
waitVars == <<wf_op, wf_timeout, wf_appears, wf_effective, wf_result>>
versionVars == <<rv_op, rv_runs, rv_result>>
settingsVars == <<st_file, st_op, st_saves, st_last_saved, st_loaded>>
diagVars == <<dg_called, dg_script, dg_client>>
dashVars == <<ds_pc, ds_card, ds_table, ds_error>>
otherVars == <<rootsVars, cfgVars, waitVars, versionVars, settingsVars, diagVars, dashVars>>
vars == <<capVars, envVars, findVars, clientVars, peVars, chainVars, otherVars>>

\* Python's None where a session, a wait or a window handle is expected.
None == 0

\* ---------------------------------------------------------------- bounds
MaxCores == 3
MaxRamSteps == 8
MaxMemSteps == 3
MaxEntries == 2
MaxSessions == 2
MaxRetries == 2
MaxRootArgs == 2
MaxChain == 2
MaxTimeout == 2
MaxChars == 2
MaxSaves == 2

Max(a, b) == IF a >= b THEN a ELSE b
Min(a, b) == IF a <= b THEN a ELSE b

(***************************************************************************)
(*                      Capacity estimator: helpers.py                     *)
(***************************************************************************)
DEFAULT_MEMORY_USAGE_MB == 350

\* Inputs the environment can present.
AvailableRamChoices == {k * 125 : k \in 0..MaxRamSteps}
MeasuredChoices == {k * 175 : k \in 0..MaxMemSteps}
BrowserChoices == {"chrome", "Chrome", "firefox", "safari"}
PopenOutcomes == {"ok", "FileNotFoundError", "PermissionError"}
MeasureErrors == {"AttributeError"}

\* str.lower() on the browser names the model draws.
Lower(s) == IF s = "Chrome" THEN "chrome" ELSE s

\* int(): truncation toward zero of the quotient num / den (den > 0).
IntTrunc(num, den) == IF num >= 0 THEN num \div den ELSE -((-num) \div den)

\* psutil.cpu_count(logical=True) or 1
NumCores(reported) == IF reported = 0 THEN 1 ELSE reported

get_system_info(cpus, avail_mb) ==
    [num_cores |-> NumCores(cpus), available_ram_mb |-> avail_mb]

\* The commands table of get_browser_memory_usage: browser -> process name.
SupportedBrowsers == {"chrome", "firefox"}

\* Faulty variant: the measured sum is returned as it is.
MeasuredAsIs(memory_usage) == memory_usage

\* memory_usage or DEFAULT_MEMORY_USAGE_MB
MeasuredOrDefault(memory_usage) ==
    IF memory_usage = 0 THEN DEFAULT_MEMORY_USAGE_MB ELSE memory_usage

\* Faulty variant: the 0.8 headroom factor is missing.
MaxByRamNoHeadroom(avail_mb, avg) == IntTrunc(avail_mb, avg)

\* int(system_info.available_ram_gb * 1024 / avg_memory_per_browser * 0.8)
MaxByRam(avail_mb, avg) == IntTrunc(avail_mb * 4, avg * 5)

\* Faulty variant: the floor of 1 is missing.
MaxBrowsersNoFloor(by_ram, by_cpu) == Min(by_ram, by_cpu)

\* max(1, min(max_by_ram, max_by_cpu))
MaxBrowsers(by_ram, by_cpu) == Max(1, Min(by_ram, by_cpu))

BrowserCapacity(info, avg) ==
    [max_browsers_by_ram |-> MaxByRam(info.available_ram_mb, avg),
     max_browsers_by_cpu |-> info.num_cores,
     max_browsers |-> MaxBrowsers(MaxByRam(info.available_ram_mb, avg), info.num_cores),
     system_info |-> info,
     avg_memory_per_browser_mb |-> avg]

NoInfo == [num_cores |-> 0, available_ram_mb |-> 0]
NoCapacity == [max_browsers_by_ram |-> 0, max_browsers_by_cpu |-> 0, max_browsers |-> 0,
               system_info |-> NoInfo, avg_memory_per_browser_mb |-> 0]
NoPending == [kind |-> "none", value |-> 0, error |-> "none", measured |-> 0]
NoProbe == [spawned |-> 0, status |-> "none", terminate_calls |-> 0, wait_calls |-> 0]

CapInit ==
    /\ cap_pc = "idle"
    /\ cap_browser = "none"
    /\ os_cpu_count = 0
    /\ system_info = NoInfo
    /\ probe = NoProbe
    /\ popen_outcome = "none"
    /\ pending = NoPending
    /\ avg_memory = 0
    /\ cap_result = NoCapacity
    /\ cap_error = "none"

\* calculate_max_browsers_or_tabs, up to the lookup in get_browser_memory_usage:
\* the snapshot is taken, then an unsupported browser raises ValueError.
CalcStart(browser, cpus, avail_mb) ==
    /\ cap_pc = "idle"
    /\ cap_browser' = browser
    /\ os_cpu_count' = cpus
    /\ system_info' = get_system_info(cpus, avail_mb)
    /\ IF Lower(browser) \in SupportedBrowsers
         THEN cap_pc' = "popen" /\ cap_error' = cap_error
         ELSE cap_pc' = "raised" /\ cap_error' = "ValueError"
    /\ UNCHANGED <<probe, popen_outcome, pending, avg_memory, cap_result>>

\* Which Popen failures _estimate_memory_usage turns into the default.
PopenErrorHandled(outcome) == outcome = "FileNotFoundError"

\* _estimate_memory_usage: subprocess.Popen(command, ...) and its except clause.
ProbePopen(outcome) ==
    /\ cap_pc = "popen"
    /\ popen_outcome' = outcome
    /\ IF outcome = "ok"
         THEN /\ probe' = [probe EXCEPT !.spawned = @ + 1, !.status = "running"]
              /\ cap_pc' = "measure"
              /\ UNCHANGED <<avg_memory, cap_error>>
         ELSE IF PopenErrorHandled(outcome)
           THEN /\ avg_memory' = DEFAULT_MEMORY_USAGE_MB
                /\ cap_pc' = "compute"
                /\ UNCHANGED <<probe, cap_error>>
           ELSE /\ cap_error' = outcome
                /\ cap_pc' = "raised"
                /\ UNCHANGED <<probe, avg_memory>>
    /\ UNCHANGED <<cap_browser, os_cpu_count, system_info, pending, cap_result>>

\* The try body: sleep, sum the resident memory of the matching processes.
\* It ends in a return value or in an exception; either way finally runs next.
ProbeMeasure(error, memory_usage) ==
    /\ cap_pc = "measure"
    /\ pending' = IF error # "none"
                    THEN [kind |-> "raise", value |-> 0, error |-> error, measured |-> 0]
                    ELSE [kind |-> "return", value |-> MeasuredOrDefault(memory_usage),
                          error |-> "none", measured |-> memory_usage]
    /\ cap_pc' = "finally"
    /\ UNCHANGED <<cap_browser, os_cpu_count, system_info, probe, popen_outcome,
                   avg_memory, cap_result, cap_error>>

\* Faulty variant: the cleanup sits after the try body instead of in a finally
\* clause, so an exception skips it.
FinallyOnlyOnReturn(kind) == kind = "return"

\* Whether the finally clause runs for a try body that ended this way.
FinallyRuns(kind) == kind \in {"return", "raise"}

\* finally: process.terminate(); process.wait(timeout=5).  The process either
\* exits within the timeout, or wait raises TimeoutExpired in place of whatever
\* the try body left pending.
ProbeFinally(exits) ==
    /\ cap_pc = "finally"
    /\ IF FinallyRuns(pending.kind)
         THEN probe' = [probe EXCEPT !.terminate_calls = @ + 1, !.wait_calls = @ + 1,
                                     !.status = IF exits THEN "exited" ELSE "signalled"]
         ELSE probe' = probe
    /\ IF FinallyRuns(pending.kind) /\ ~exits
         THEN cap_pc' = "raised" /\ cap_error' = "TimeoutExpired" /\ avg_memory' = avg_memory
         ELSE IF pending.kind = "raise"
           THEN cap_pc' = "raised" /\ cap_error' = pending.error /\ avg_memory' = avg_memory
           ELSE cap_pc' = "compute" /\ avg_memory' = pending.value /\ cap_error' = cap_error
    /\ UNCHANGED <<cap_browser, os_cpu_count, system_info, popen_outcome, pending, cap_result>>

\* The rest of calculate_max_browsers_or_tabs.
CalcCompute ==
    /\ cap_pc = "compute"
    /\ cap_result' = BrowserCapacity(system_info, avg_memory)
    /\ cap_pc' = "done"
    /\ UNCHANGED <<cap_browser, os_cpu_count, system_info, probe, popen_outcome,
                   pending, avg_memory, cap_error>>

CapNext ==
    \/ \E b \in BrowserChoices, c \in 0..MaxCores, a \in AvailableRamChoices : CalcStart(b, c, a)
    \/ \E o \in PopenOutcomes : ProbePopen(o)
    \/ \E m \in MeasuredChoices : ProbeMeasure("none", m)
    \/ \E e \in MeasureErrors : ProbeMeasure(e, 0)
    \/ \E e \in BOOLEAN : ProbeFinally(e)
    \/ CalcCompute

(***************************************************************************)
(*                  Binary resolver: driver/selenium.py                    *)
(***************************************************************************)
\* An entry of a directory tree: the path below the root that a pattern is
\* matched against, and what kind of file it is.
EntryKinds == {"file", "dir", "symlink_to_file", "symlink_to_dir", "broken_symlink", "fifo"}

\* Path.is_file(): a regular file, or a symlink that points to one.
is_file(entry) == entry.kind \in {"file", "symlink_to_file"}
\* Path.is_symlink(): any symlink, whatever it points to.
is_symlink(entry) == entry.kind \in {"symlink_to_file", "symlink_to_dir", "broken_symlink"}

\* Whether rglob(pattern) yields a path with this tail: the pattern is matched
\* against the last components of the path.
Matches(name, pattern) ==
    \/ name = pattern
    \/ pattern = "Chromium" /\ name = "Chromium.app/Contents/MacOS/Chromium"

\* list(root.rglob(pattern)): the positions of root's tree that match, in the
\* order the traversal yields them.
rglob(tree, root, pattern) ==
    SelectSeq([i \in 1..Len(tree[root]) |-> i],
              LAMBDA i : Matches(tree[root][i].name, pattern))

\* A path found below a root (the position in the root's tree), and None.
Path(root, i) == [root |-> root, index |-> i]
Null == [root |-> "None", index |-> 0]

\* Faulty variant: symlinks that are not regular files are skipped.
CandidateAcceptedFilesOnly(entry) == is_file(entry)

\* The candidate test of _find_binary.
CandidateAccepted(entry) == is_file(entry) \/ is_symlink(entry)

\* for candidate in candidates: if candidate.is_file() or candidate.is_symlink(): return candidate
RECURSIVE FirstCandidate(_, _, _, _)
FirstCandidate(tree, root, candidates, k) ==
    IF k > Len(candidates) THEN Null
    ELSE IF CandidateAccepted(tree[root][candidates[k]])
      THEN Path(root, candidates[k])
      ELSE FirstCandidate(tree, root, candidates, k + 1)

\* for pattern in patterns: ...
RECURSIVE FindInRoot(_, _, _, _)
FindInRoot(tree, root, patterns, j) ==
    IF j > Len(patterns) THEN Null
    ELSE LET found == FirstCandidate(tree, root, rglob(tree, root, patterns[j]), 1)
         IN IF found # Null THEN found ELSE FindInRoot(tree, root, patterns, j + 1)

\* for root in roots: ...; return None
RECURSIVE FindFromRoot(_, _, _, _)
FindFromRoot(tree, roots, patterns, i) ==
    IF i > Len(roots) THEN Null
    ELSE LET found == FindInRoot(tree, roots[i], patterns, 1)
         IN IF found # Null THEN found ELSE FindFromRoot(tree, roots, patterns, i + 1)

_find_binary(tree, roots, patterns) == FindFromRoot(tree, roots, patterns, 1)

\* The same search in scripts/debug_browser_binaries.py (rglob consumed lazily).
find_binary(tree, roots, patterns) == FindFromRoot(tree, roots, patterns, 1)

PotentialRoots == <<"chrome_portable", "ungoogled_chromium">>
FallbackRoot == "."
AllRoots == {"chrome_portable", "ungoogled_chromium", "."}

\* Faulty variant: no fallback to the resource base directory.
CandidateRootsNoFallback(exists) == SelectSeq(PotentialRoots, LAMBDA r : r \in exists)

\* _candidate_roots: the potential roots that exist, in order; the resource
\* base directory when none does.
_candidate_roots(exists) ==
    LET roots == SelectSeq(PotentialRoots, LAMBDA r : r \in exists)
    IN IF roots = <<>> THEN <<FallbackRoot>> ELSE roots

\* platform_name.startswith("win")
StartsWithWin(p) == p = "windows"

driver_name(p) == IF StartsWithWin(p) THEN "chromedriver.exe" ELSE "chromedriver"

browser_candidates(p) ==
    IF StartsWithWin(p) THEN <<"chrome.exe">>
    ELSE IF p = "darwin" THEN <<"Chromium.app/Contents/MacOS/Chromium", "Chromium">>
    ELSE <<"chrome", "chromium">>

\* Faulty variant: "and" in place of "or".
ResolveFailsOnlyBoth(browser_path, driver_path) == browser_path = Null /\ driver_path = Null

\* Whether _resolve_binary_paths gives up on this pair of search results.
ResolveFails(browser_path, driver_path) == browser_path = Null \/ driver_path = Null

\* No BrowserBinaryPaths: the None of self._binary_paths, and a resolution that
\* raised FileNotFoundError.
NoPaths == [browser_executable |-> Null, driver_executable |-> Null]

\* _resolve_binary_paths: the BrowserBinaryPaths, or NoPaths when it raises
\* FileNotFoundError.
_resolve_binary_paths(files, p) ==
    LET search_roots == _candidate_roots(files.exists)
        browser_path == _find_binary(files.listing, search_roots, browser_candidates(p))
        driver_path == _find_binary(files.listing, search_roots, <<driver_name(p)>>)
    IN IF ResolveFails(browser_path, driver_path)
         THEN NoPaths
         ELSE [browser_executable |-> browser_path, driver_executable |-> driver_path]

\* ---- _find_binary on arbitrary roots and patterns ----
E(n, k) == [name |-> n, kind |-> k]

RECURSIVE SeqsUpTo(_, _)
SeqsUpTo(S, n) ==
    IF n = 0 THEN {<<>>}
    ELSE LET shorter == SeqsUpTo(S, n - 1)
         IN shorter \cup {Append(s, x) : s \in shorter, x \in S}

FindEntries == {E("chrome", "file"), E("chrome", "dir"),
                E("chromium", "symlink_to_dir"), E("chromium", "fifo")}
FindListings == SeqsUpTo(FindEntries, MaxEntries)
FindTrees == {[r \in AllRoots |-> IF r = "chrome_portable" THEN a
                                  ELSE IF r = "ungoogled_chromium" THEN b ELSE <<>>] :
                 a \in FindListings, b \in FindListings}
FindRootArgs == {<<>>, <<"chrome_portable">>, <<"chrome_portable", "ungoogled_chromium">>,
                 <<"ungoogled_chromium", "chrome_portable">>}
FindPatternArgs == {<<"chrome">>, <<"chrome", "chromium">>, <<"chromium", "chrome">>}

FindInit ==
    /\ fs \in {[exists |-> {"chrome_portable", "ungoogled_chromium"}, listing |-> t] : t \in FindTrees}
    /\ platform_name = "linux"
    /\ fb_called = FALSE
    /\ fb_roots = <<>>
    /\ fb_patterns = <<>>
    /\ fb_result = Null

FindBinary(roots, patterns) ==
    /\ ~fb_called
    /\ fb_called' = TRUE
    /\ fb_roots' = roots
    /\ fb_patterns' = patterns
    /\ fb_result' = _find_binary(fs.listing, roots, patterns)
    /\ UNCHANGED <<envVars, capVars, otherVars, chainVars, clientVars, peVars>>

FindNext == \E roots \in FindRootArgs, patterns \in FindPatternArgs : FindBinary(roots, patterns)

(***************************************************************************)
(*   Search roots: _candidate_roots and scripts/debug_browser_binaries.py  *)
(***************************************************************************)
\* Path.cwd(): the script is run from the resource base directory.
Cwd == "."

\* for root in root_arguments: ... if path.exists(): roots.append(path)
RECURSIVE ExistingFrom(_, _, _)
ExistingFrom(root_arguments, exists, i) ==
    IF i > Len(root_arguments) THEN <<>>
    ELSE (IF root_arguments[i] \in exists THEN <<root_arguments[i]>> ELSE <<>>)
             \o ExistingFrom(root_arguments, exists, i + 1)

\* expand_roots of the script: the existing roots, or the working directory.
expand_roots(root_arguments, exists) ==
    LET roots == ExistingFrom(root_arguments, exists, 1)
    IN IF roots = <<>> THEN <<Cwd>> ELSE roots

\* The patterns of collect_binary_info.
ScriptChromiumPatterns == <<"chrome.exe", "Chromium.app/Contents/MacOS/Chromium",
                            "chrome", "chromium">>
ScriptDriverPatterns == <<"chromedriver.exe", "chromedriver">>

\* The root lists the script is given.
RootArgs == SeqsUpTo({"chrome_portable", "ungoogled_chromium"}, MaxRootArgs)

\* roots = expand_roots(args.search_root), then the search for the browser.
ExpandRoots(root_arguments) ==
    /\ er_op = "none"
    /\ er_op' = "expand_roots"
    /\ er_args' = root_arguments
    /\ LET roots == expand_roots(root_arguments, fs.exists)
       IN /\ er_roots' = roots
          /\ er_found' = find_binary(fs.listing, roots, ScriptChromiumPatterns)
    /\ UNCHANGED <<envVars, capVars, findVars, clientVars, peVars, chainVars, cfgVars, waitVars,
                   versionVars, settingsVars, diagVars, dashVars>>

\* search_roots = self._candidate_roots(), then the search for the browser.
CandidateRoots ==
    /\ er_op = "none"
    /\ er_op' = "_candidate_roots"
    /\ er_args' = PotentialRoots
    /\ LET roots == _candidate_roots(fs.exists)
       IN /\ er_roots' = roots
          /\ er_found' = _find_binary(fs.listing, roots, browser_candidates(platform_name))
    /\ UNCHANGED <<envVars, capVars, findVars, clientVars, peVars, chainVars, cfgVars, waitVars,
                   versionVars, settingsVars, diagVars, dashVars>>

RootsNext ==
    \/ \E root_arguments \in RootArgs : ExpandRoots(root_arguments)
    \/ CandidateRoots

\* The default of --search-root.
ScriptDefaultRoots == <<"ungoogled_chromium", "chrome_portable">>

\* collect_binary_info(roots): the two paths of the report.
collect_binary_info(tree, roots) ==
    [browser |-> find_binary(tree, roots, ScriptChromiumPatterns),
     driver |-> find_binary(tree, roots, ScriptDriverPatterns)]

\* The two searches of _resolve_binary_paths.
ClientLookup(files, p) ==
    LET search_roots == _candidate_roots(files.exists)
    IN [browser |-> _find_binary(files.listing, search_roots, browser_candidates(p)),
        driver |-> _find_binary(files.listing, search_roots, <<driver_name(p)>>)]

\* The script is run with its default roots, and the client resolves its
\* binaries, on the same directory tree.
RunDiagnostics ==
    /\ ~dg_called
    /\ dg_called' = TRUE
    /\ dg_script' = collect_binary_info(fs.listing, expand_roots(ScriptDefaultRoots, fs.exists))
    /\ dg_client' = ClientLookup(fs, platform_name)
    /\ UNCHANGED <<envVars, capVars, findVars, clientVars, peVars, chainVars, rootsVars,
                   cfgVars, waitVars, versionVars, settingsVars, dashVars>>

(***************************************************************************)
(*                 BrowserClient session: driver/selenium.py               *)
(***************************************************************************)
\* The fields of a BrowserClient together with the browsers it has started.
Client == [driver |-> driver, wait |-> wait, initial_window_handle |-> initial_window_handle,
           binary_paths |-> binary_paths, alive |-> alive, started |-> started,
           resolved |-> resolved_once]

\* What webdriver.Chrome(...) and the reads that follow it can do.
LaunchOutcomes == {"ok", "launch_fail", "handle_fail"}

\* A finished call: what it returned or raised, the client fields before it,
\* and how often it searched for the binaries, launched a browser, quit one
\* and logged an error.
CallRecord(op, result, before, resolves, launches, launch, quits, logged) ==
    [op |-> op, result |-> result, before |-> before, resolves |-> resolves,
     launches |-> launches, launch |-> launch, quits |-> quits, logged |-> logged]

\* What initialize_driver or ensure_driver did: the client afterwards, the
\* result, and the launch attempts with how the attempt went ("none": no attempt).
Outcome(cl, result, resolves, launches, launch, logged) ==
    [cl |-> cl, result |-> result, resolves |-> resolves, launches |-> launches,
     launch |-> launch, logged |-> logged]

\* Faulty variant: the error is logged and not raised again.
OnLaunchErrorSwallow == "swallow"

\* What the except clause of initialize_driver does with the error: "reraise"
\* (log it and raise it again).
OnLaunchError == "reraise"

\* The try block of initialize_driver, given the service.
LaunchSession(cl, paths, resolves, launch) ==
    LET s == cl.started + 1
        withPaths == [cl EXCEPT !.binary_paths = paths]
        failed(c) == IF OnLaunchError = "reraise"
                       THEN Outcome(c, "WebDriverException", resolves, 1, launch, 1)
                       ELSE Outcome(c, "ok", resolves, 1, launch, 1)
    IN IF launch = "launch_fail"
         THEN failed(withPaths)
         ELSE LET running == [withPaths EXCEPT !.driver = s, !.wait = s,
                                               !.started = s, !.alive = @ \cup {s}]
              IN IF launch = "handle_fail"
                   THEN failed(running)
                   ELSE Outcome([running EXCEPT !.initial_window_handle = s],
                                "ok", resolves, 1, launch, 0)

\* initialize_driver: _create_chrome_service (binary paths cached or resolved,
\* FileNotFoundError propagating), then the try block.
initialize_driver(cl, files, p, launch) ==
    IF cl.binary_paths # NoPaths
      THEN LaunchSession(cl, cl.binary_paths, 0, launch)
      ELSE LET paths == _resolve_binary_paths(files, p)
           IN IF paths = NoPaths
                THEN Outcome(cl, "FileNotFoundError", 1, 0, "none", 0)
                ELSE LaunchSession([cl EXCEPT !.resolved = TRUE], paths, 1, launch)

\* Faulty variant: the test of self.driver is missing.
EnsureAlways(d) == TRUE

\* if self.driver is None
EnsureNeedsInit(d) == d = None

ensure_driver(cl, files, p, launch) ==
    IF EnsureNeedsInit(cl.driver)
      THEN initialize_driver(cl, files, p, launch)
      ELSE Outcome(cl, "ok", 0, 0, "none", 0)

\* The launch outcomes the model still has a session for.
LaunchAllowed(launch) == launch = "launch_fail" \/ started < MaxSessions

SetClient(cl) ==
    /\ driver' = cl.driver
    /\ wait' = cl.wait
    /\ initial_window_handle' = cl.initial_window_handle
    /\ binary_paths' = cl.binary_paths
    /\ alive' = cl.alive
    /\ started' = cl.started
    /\ resolved_once' = cl.resolved

\* No process_element call and no chain is in progress (the client is
\* single-threaded).
Idle == pe_pc = "idle" /\ chain_pc = "idle"

InitializeDriver(launch) ==
    /\ Idle
    /\ LaunchAllowed(launch)
    /\ LET r == initialize_driver(Client, fs, platform_name, launch)
       IN /\ SetClient(r.cl)
          /\ last' = CallRecord("initialize_driver", r.result, Client,
                                r.resolves, r.launches, r.launch, 0, r.logged)
    /\ UNCHANGED <<envVars, capVars, otherVars, chainVars, findVars, peVars>>

EnsureDriver(launch) ==
    /\ Idle
    /\ LaunchAllowed(launch)
    /\ LET r == ensure_driver(Client, fs, platform_name, launch)
       IN /\ SetClient(r.cl)
          /\ last' = CallRecord("ensure_driver", r.result, Client,
                                r.resolves, r.launches, r.launch, 0, r.logged)
    /\ UNCHANGED <<envVars, capVars, otherVars, chainVars, findVars, peVars>>

\* open_url: ensure_driver, then driver.get(url), which may raise.
OpenUrl(launch, got) ==
    /\ Idle
    /\ LaunchAllowed(launch)
    /\ LET r == ensure_driver(Client, fs, platform_name, launch)
       IN /\ SetClient(r.cl)
          /\ last' = CallRecord("open_url",
                                IF r.result # "ok" THEN r.result
                                ELSE IF got THEN "ok" ELSE "WebDriverException",
                                Client, r.resolves, r.launches, r.launch, 0, r.logged)
    /\ UNCHANGED <<envVars, capVars, otherVars, chainVars, findVars, peVars>>

\* if self.driver
CloseHasDriver(d) == d # None

\* Faulty variant: self.wait is not cleared.
ClosedFieldsKeepWait(cl) == [cl EXCEPT !.driver = None, !.initial_window_handle = None,
                                       !.alive = @ \ {cl.driver}]

\* close_driver, when quit returns: the fields are cleared.
ClosedFields(cl) == [cl EXCEPT !.driver = None, !.wait = None, !.initial_window_handle = None,
                               !.alive = @ \ {cl.driver}]

\* close_driver.  quit either returns or raises; when it raises the statements
\* after it are skipped, and the browser may or may not have gone.
close_driver(cl, quit_ok, gone) ==
    IF CloseHasDriver(cl.driver)
      THEN IF quit_ok
             THEN [cl |-> ClosedFields(cl), result |-> "ok", quits |-> 1]
             ELSE [cl |-> [cl EXCEPT !.alive = IF gone THEN @ \ {cl.driver} ELSE @],
                   result |-> "WebDriverException", quits |-> 1]
      ELSE [cl |-> cl, result |-> "ok", quits |-> 0]

CloseDriver(quit_ok, gone) ==
    /\ Idle
    /\ quit_ok => gone
    /\ LET r == close_driver(Client, quit_ok, gone)
       IN /\ SetClient(r.cl)
          /\ last' = CallRecord("close_driver", r.result, Client, 0, 0, "none", r.quits, 0)
    /\ UNCHANGED <<envVars, capVars, otherVars, chainVars, findVars, peVars>>

\* describe_environment: the paths cached by a session creation, or a fresh
\* resolution whose result is returned but not stored in the client.
DescribeEnvironment ==
    /\ Idle
    /\ LET paths == IF binary_paths # NoPaths THEN binary_paths
                    ELSE _resolve_binary_paths(fs, platform_name)
       IN /\ last' = CallRecord("describe_environment",
                                IF paths = NoPaths THEN "FileNotFoundError" ELSE "ok",
                                Client, IF binary_paths # NoPaths THEN 0 ELSE 1, 0, "none", 0, 0)
          /\ resolved_once' = (resolved_once \/ paths # NoPaths)
    /\ UNCHANGED <<driver, wait, initial_window_handle, binary_paths, alive, started>>
    /\ UNCHANGED <<envVars, capVars, otherVars, chainVars, findVars, peVars>>

(***************************************************************************)
(*                 process_element: driver/selenium.py                     *)
(***************************************************************************)
\* except (TimeoutException, NoSuchElementException, StaleElementReferenceException)
Transient == {"TimeoutException", "NoSuchElementException", "StaleElementReferenceException"}

\* Faulty variant: every exception is treated as transient.
IsTransientAny(e) == TRUE

\* Whether the first except clause of process_element catches e.
IsTransient(e) == e \in Transient

\* What a WebDriver call on an element can raise.
StepErrors == Transient \cup {"WebDriverException"}

\* Faulty variant: one retry too many.
RetryAllowedOffByOne(retries) == retries >= 0

\* if retries > 0
RetryAllowed(retries) == retries > 0

\* The UIElement descriptors the model draws: action and post_action.
PeElements == {[action |-> "click", post_action |-> ""],
               [action |-> "USE_SCRIPT", post_action |-> "submit"],
               [action |-> "text", post_action |-> "noop"],
               [action |-> "click", post_action |-> "noop"],
               [action |-> "", post_action |-> ""]}

\* The actions _perform_action makes a WebDriver call for.
ActionCalls == {"click", "USE_SCRIPT", "text"}
\* Faulty variant: every post-action makes a WebDriver call.
PostActionCallsAny == {"submit", "noop"}

\* The post-actions _perform_post_action makes a WebDriver call for.
PostActionCalls == {"submit"}

PeInit ==
    /\ pe_pc = "idle"
    /\ pe_element = [action |-> "", post_action |-> ""]
    /\ pe_R = 0
    /\ pe_retries = 0
    /\ pe_attempts = 0
    /\ pe_hist = <<>>
    /\ pe_steps = <<>>
    /\ pe_result = "none"
    /\ pe_log = <<>>
    /\ pe_sleeps = 0
    /\ pe_actions = 0

\* Entering process_element(element, retries).
PeStart(el, R) ==
    /\ pe_pc' = "locate"
    /\ pe_element' = el
    /\ pe_R' = R
    /\ pe_retries' = R
    /\ pe_attempts' = 0
    /\ pe_hist' = <<>>
    /\ pe_steps' = <<>>
    /\ pe_result' = "running"
    /\ pe_log' = <<>>
    /\ pe_sleeps' = 0
    /\ pe_actions' = 0

\* A call process_element(element, retries) from outside.
PeCall(el, R) ==
    /\ Idle
    /\ PeStart(el, R)
    /\ UNCHANGED <<envVars, capVars, otherVars, chainVars, findVars, clientVars>>

\* The except clauses of process_element for an attempt that raised e: a
\* transient error with retries left calls process_element(element, retries - 1),
\* whose return is the return of this call; anything else is logged and the
\* call returns.
PeHandle(e) ==
    /\ pe_hist' = Append(pe_hist, e)
    /\ pe_steps' = <<>>
    /\ pe_sleeps' = pe_sleeps
    /\ pe_actions' = pe_actions
    /\ pe_log' = Append(pe_log, IF ~IsTransient(e) THEN "error"
                                ELSE IF RetryAllowed(pe_retries) THEN "warning"
                                ELSE "error_after_retries")
    /\ IF IsTransient(e) /\ RetryAllowed(pe_retries)
         THEN pe_pc' = "locate" /\ pe_retries' = pe_retries - 1 /\ pe_result' = pe_result
         ELSE pe_pc' = "done" /\ pe_retries' = pe_retries /\ pe_result' = "returned"

\* The actions of _perform_action that click: found_element.click() and the
\* script-driven click.
ClickActions == {"click", "USE_SCRIPT"}

PeAdvance(step, next) ==
    /\ pe_steps' = Append(pe_steps, step)
    /\ pe_actions' = IF step = "action" /\ pe_element.action \in ClickActions
                      THEN pe_actions + 1 ELSE pe_actions
    /\ pe_pc' = next
    /\ UNCHANGED <<pe_retries, pe_hist, pe_result, pe_log, pe_sleeps>>

\* The start of an attempt: wait_for_element, that is ensure_driver and then
\* WebDriverWait.until, whose TimeoutException wait_for_element turns into None
\* and process_element into NoSuchElementException.
\* (After ensure_driver has returned self.driver is set, so the early
\* "return None" of wait_for_element is not taken.)
PeLocate(launch, outcome) ==
    /\ pe_pc = "locate"
    /\ LaunchAllowed(launch)
    /\ pe_attempts' = pe_attempts + 1
    /\ LET r == ensure_driver(Client, fs, platform_name, launch)
       IN /\ SetClient(r.cl)
          /\ last' = CallRecord("ensure_driver", r.result, Client,
                                r.resolves, r.launches, r.launch, 0, r.logged)
          /\ IF r.result # "ok" THEN PeHandle(r.result)
             ELSE IF outcome = "found" THEN PeAdvance("locate", "scroll")
             ELSE IF outcome = "timeout" THEN PeHandle("NoSuchElementException")
             ELSE PeHandle(outcome)
    /\ UNCHANGED <<pe_element, pe_R, envVars, capVars, otherVars, chainVars, findVars>>

\* scroll_to_element
PeScroll(outcome) ==
    /\ pe_pc = "scroll"
    /\ IF outcome = "ok" THEN PeAdvance("scroll", "action") ELSE PeHandle(outcome)
    /\ UNCHANGED <<pe_element, pe_R, pe_attempts, envVars, capVars, otherVars, chainVars, findVars, clientVars>>

\* Faulty variant: the post-action is attempted for every element.
AfterActionAlwaysPost(el) == "post"

\* if element.post_action: ... (the step that follows the action)
AfterAction(el) == IF el.post_action # "" THEN "post" ELSE "sleep"

\* _perform_action, then the test of element.post_action
PeAction(outcome) ==
    /\ pe_pc = "action"
    /\ outcome # "ok" => pe_element.action \in ActionCalls
    /\ IF outcome = "ok"
         THEN PeAdvance("action", AfterAction(pe_element))
         ELSE PeHandle(outcome)
    /\ UNCHANGED <<pe_element, pe_R, pe_attempts, envVars, capVars, otherVars, chainVars, findVars, clientVars>>

\* _perform_post_action
PePost(outcome) ==
    /\ pe_pc = "post"
    /\ outcome # "ok" => pe_element.post_action \in PostActionCalls
    /\ IF outcome = "ok" THEN PeAdvance("post", "sleep") ELSE PeHandle(outcome)
    /\ UNCHANGED <<pe_element, pe_R, pe_attempts, envVars, capVars, otherVars, chainVars, findVars, clientVars>>

\* time.sleep(1), the debug log, and the return
PeSleep ==
    /\ pe_pc = "sleep"
    /\ pe_steps' = Append(pe_steps, "sleep")
    /\ pe_hist' = Append(pe_hist, "ok")
    /\ pe_pc' = "done"
    /\ pe_result' = "returned"
    /\ pe_sleeps' = pe_sleeps + 1
    /\ pe_actions' = pe_actions
    /\ UNCHANGED <<pe_log, pe_retries, pe_element, pe_R, pe_attempts, envVars, capVars, otherVars, chainVars, findVars,
                   clientVars>>

\* The caller goes on after process_element has returned.
PeReturn ==
    /\ pe_pc = "done"
    /\ pe_pc' = "idle"
    /\ pe_element' = [action |-> "", post_action |-> ""]
    /\ pe_R' = 0
    /\ pe_retries' = 0
    /\ pe_attempts' = 0
    /\ pe_hist' = <<>>
    /\ pe_steps' = <<>>
    /\ pe_result' = "none"
    /\ pe_log' = <<>>
    /\ pe_sleeps' = 0
    /\ pe_actions' = 0
    /\ IF chain_pc = "running"
         THEN /\ chain_log' = Append(chain_log, [element |-> pe_element, retries |-> pe_R,
                                                 outcome |-> pe_hist[Len(pe_hist)]])
              /\ UNCHANGED <<chain_pc, chain_elements>>
         ELSE UNCHANGED chainVars
    /\ UNCHANGED <<envVars, capVars, otherVars, findVars, clientVars>>

(***************************************************************************)
(*              process_elements_chain: driver/selenium.py                 *)
(***************************************************************************)
\* The element lists a chain is called with.
ChainArgs == SeqsUpTo(PeElements, MaxChain)

\* process_elements_chain(elements) is called.
ChainCall(elements) ==
    /\ Idle
    /\ chain_pc' = "running"
    /\ chain_elements' = elements
    /\ chain_log' = <<>>
    /\ UNCHANGED <<envVars, capVars, findVars, clientVars, peVars, otherVars>>

\* Faulty variant: the loop stops at the first element that was not processed
\* successfully.
ChainGoesOnAfterSuccess(outcome) == outcome = "ok"

\* Whether the for loop goes on to the next element after process_element has
\* returned with this outcome.
ChainGoesOn(outcome) == TRUE

\* The elements the for loop has been through: those whose process_element has
\* returned, and all of them once the loop has left.
ChainLeft ==
    \/ Len(chain_log) = Len(chain_elements)
    \/ chain_log # <<>> /\ ~ChainGoesOn(chain_log[Len(chain_log)].outcome)

\* for element in elements: self.process_element(element, self.max_retries)
ChainStep ==
    /\ chain_pc = "running"
    /\ pe_pc = "idle"
    /\ ~ChainLeft
    /\ PeStart(chain_elements[Len(chain_log) + 1], max_retries)
    /\ UNCHANGED <<envVars, capVars, findVars, clientVars, chainVars, otherVars>>

\* The loop is over and process_elements_chain returns.
ChainReturn ==
    /\ chain_pc = "running"
    /\ pe_pc = "idle"
    /\ ChainLeft
    /\ chain_pc' = "done"
    /\ UNCHANGED <<chain_elements, chain_log>>
    /\ UNCHANGED <<envVars, capVars, findVars, clientVars, peVars, otherVars>>

\* The caller goes on after process_elements_chain has returned.
ChainForget ==
    /\ chain_pc = "done"
    /\ chain_pc' = "idle"
    /\ chain_elements' = <<>>
    /\ chain_log' = <<>>
    /\ UNCHANGED <<envVars, capVars, findVars, clientVars, peVars, otherVars>>

(***************************************************************************)
(*    wait_for_element, wait_for_clickable_element: driver/selenium.py     *)
(***************************************************************************)
\* timeout=None
NoTimeout == -1

\* The timeout arguments and the seconds after which the condition holds
\* (beyond MaxTimeout: not within any timeout of the model).
TimeoutArgs == {NoTimeout} \cup (0..MaxTimeout)
AppearTimes == 0..(MaxTimeout + 1)
WaitOps == {"wait_for_element", "wait_for_clickable_element"}

\* wait_timeout = timeout or self.wait_timeout
EffectiveTimeout(timeout, client_timeout) ==
    IF timeout # NoTimeout /\ timeout # 0 THEN timeout ELSE client_timeout

\* WebDriverWait(driver, t).until(condition): the element when the condition
\* holds at a poll within t seconds (the first poll is immediate),
\* TimeoutException otherwise; a poll can also raise another WebDriverException.
Until(t, appears, poll_error) ==
    IF poll_error THEN "WebDriverException"
    ELSE IF appears <= t THEN "element" ELSE "TimeoutException"

\* wait_for_element / wait_for_clickable_element (they differ in the awaited
\* condition only).
WaitFor(op, timeout, appears, launch, poll_error) ==
    /\ Idle
    /\ LaunchAllowed(launch)
    /\ wf_op' = op
    /\ wf_timeout' = timeout
    /\ wf_appears' = appears
    /\ LET r == ensure_driver(Client, fs, platform_name, launch)
           t == EffectiveTimeout(timeout, wait_timeout)
           waited == Until(t, appears, poll_error)
       IN /\ SetClient(r.cl)
          /\ last' = CallRecord("ensure_driver", r.result, Client,
                                r.resolves, r.launches, r.launch, 0, r.logged)
          /\ IF r.result # "ok"
               THEN wf_effective' = NoTimeout /\ wf_result' = r.result
               ELSE IF r.cl.driver = None
                 THEN wf_effective' = NoTimeout /\ wf_result' = "None"
                 ELSE /\ wf_effective' = t
                      /\ wf_result' = IF waited = "TimeoutException" THEN "None" ELSE waited
    /\ UNCHANGED <<envVars, capVars, findVars, peVars, chainVars, rootsVars, cfgVars,
                   versionVars, settingsVars, diagVars, dashVars>>

WaitNext ==
    \E op \in WaitOps, timeout \in TimeoutArgs, appears \in AppearTimes,
       launch \in LaunchOutcomes, poll_error \in BOOLEAN :
        WaitFor(op, timeout, appears, launch, poll_error)

(***************************************************************************)
(*  Version probe: _read_binary_version (and read_version of the script)   *)
(***************************************************************************)
\* What subprocess.run(command, capture_output=True, check=True, text=True)
\* does: the process exits with status 0 and some output, exits with another
\* status (CalledProcessError), or cannot be started (an OSError: the file is
\* missing, may not be executed, or is not an executable at all).
RunErrors == {"CalledProcessError", "FileNotFoundError", "PermissionError", "OSError"}
Outputs == {"", " ", "Chromium 120.0"}
RunOutcomes ==
    {[kind |-> "exit0", stdout |-> out, stderr |-> err] : out \in Outputs, err \in Outputs}
        \cup {[kind |-> e, stdout |-> "", stderr |-> ""] : e \in RunErrors}

\* str.strip() on the outputs the model draws.
Strip(text) == IF text = " " THEN "" ELSE text

\* (result.stdout or result.stderr).strip()
Output(run) == Strip(IF run.stdout # "" THEN run.stdout ELSE run.stderr)

\* except (subprocess.CalledProcessError, FileNotFoundError, PermissionError)
VersionErrorsCaught == {"CalledProcessError", "FileNotFoundError", "PermissionError"}

Returned(value) == [value |-> value, raised |-> "none"]
Raised(error) == [value |-> "", raised |-> error]

\* for command in version_commands: ...; return "Unknown"
RECURSIVE ReadVersionFrom(_, _)
ReadVersionFrom(runs, k) ==
    IF k > Len(runs) THEN Returned("Unknown")
    ELSE IF runs[k].kind = "exit0"
      THEN IF Output(runs[k]) # "" THEN Returned(Output(runs[k]))
           ELSE ReadVersionFrom(runs, k + 1)
      ELSE IF runs[k].kind \in VersionErrorsCaught THEN ReadVersionFrom(runs, k + 1)
      ELSE Raised(runs[k].kind)

_read_binary_version(runs) == ReadVersionFrom(runs, 1)

\* read_version of the script, given a path.
read_version(runs) == ReadVersionFrom(runs, 1)

\* A call with the outcomes of `<binary> --version` and `<binary> --product-version`.
ReadBinaryVersion(op, first, second) ==
    /\ rv_op = "none"
    /\ rv_op' = op
    /\ rv_runs' = <<first, second>>
    /\ rv_result' = IF op = "read_version" THEN read_version(<<first, second>>)
                    ELSE _read_binary_version(<<first, second>>)
    /\ UNCHANGED <<envVars, capVars, findVars, clientVars, peVars, chainVars, rootsVars,
                   cfgVars, waitVars, settingsVars, diagVars, dashVars>>

VersionNext ==
    \E op \in {"_read_binary_version", "read_version"}, first \in RunOutcomes,
       second \in RunOutcomes : ReadBinaryVersion(op, first, second)

(***************************************************************************)
(*                     SettingsStore: utils/settings.py                    *)
(***************************************************************************)
\* The characters of the strings the model draws: a plain one, the two that
\* JSON escapes with a backslash, and a non-ASCII one.
Alphabet == {"a", "\"", "\\", "U+00E9"}

\* LLMSettings whose fields hold at most MaxChars characters together.
SettingsChoices ==
    UNION {UNION {{[base_url |-> u, api_key |-> k, model |-> m] :
                      m \in SeqsUpTo(Alphabet, MaxChars - Len(u) - Len(k))} :
                  k \in SeqsUpTo(Alphabet, MaxChars - Len(u))} :
           u \in SeqsUpTo(Alphabet, MaxChars)}

\* LLMSettings()
DefaultSettings == [base_url |-> <<>>, api_key |-> <<>>, model |-> <<>>]

\* Faulty variant: the backslash is written as it is.
EscapeCharNoBackslash(c) ==
    IF c = "\"" THEN <<"\\", "\"">>
    ELSE IF c = "U+00E9" THEN <<"\\", "u00e9">>
    ELSE <<c>>

\* json.dumps on one character of a string (ensure_ascii is on): what it
\* writes between the quotes.
EscapeChar(c) ==
    IF c = "\"" THEN <<"\\", "\"">>
    ELSE IF c = "\\" THEN <<"\\", "\\">>
    ELSE IF c = "U+00E9" THEN <<"\\", "u00e9">>
    ELSE <<c>>

RECURSIVE EscapeFrom(_, _)
EscapeFrom(text, i) ==
    IF i > Len(text) THEN <<>> ELSE EscapeChar(text[i]) \o EscapeFrom(text, i + 1)

\* json.dumps of a string.
DumpString(text) == <<"\"">> \o EscapeFrom(text, 1) \o <<"\"">>

\* json.dumps(asdict(settings), indent=2), without the insignificant white
\* space; a key is written as one symbol between its quotes.
dumps(settings) ==
    <<"{">> \o DumpString(<<"base_url">>) \o <<":">> \o DumpString(settings.base_url)
        \o <<",">> \o DumpString(<<"api_key">>) \o <<":">> \o DumpString(settings.api_key)
        \o <<",">> \o DumpString(<<"model">>) \o <<":">> \o DumpString(settings.model)
        \o <<"}">>

\* json.loads: a parse result, and the failure JSONDecodeError.
Parsed(value, next) == [ok |-> TRUE, value |-> value, next |-> next]
ParseError == [ok |-> FALSE, value |-> <<>>, next |-> 0]

\* The characters of a string up to its closing quote.
RECURSIVE ParseChars(_, _, _)
ParseChars(text, i, acc) ==
    IF i > Len(text) THEN ParseError
    ELSE IF text[i] = "\"" THEN Parsed(acc, i + 1)
    ELSE IF text[i] = "\\"
      THEN IF i + 1 > Len(text) THEN ParseError
           ELSE IF text[i + 1] \in {"\"", "\\"}
             THEN ParseChars(text, i + 2, Append(acc, text[i + 1]))
           ELSE IF text[i + 1] = "u00e9" THEN ParseChars(text, i + 2, Append(acc, "U+00E9"))
           ELSE ParseError
    ELSE IF text[i] \in {"{", "}", ":", ",", "u00e9"} THEN ParseError
    ELSE ParseChars(text, i + 1, Append(acc, text[i]))

ParseString(text, i) ==
    IF i <= Len(text) /\ text[i] = "\"" THEN ParseChars(text, i + 1, <<>>) ELSE ParseError

\* The members of an object: "key": "value" separated by commas, up to the
\* closing brace, which must end the text.
RECURSIVE ParseMembers(_, _, _)
ParseMembers(text, i, members) ==
    LET key == ParseString(text, i)
    IN IF ~key.ok \/ key.next > Len(text) \/ text[key.next] # ":" THEN ParseError
       ELSE LET value == ParseString(text, key.next + 1)
                found == Append(members, [key |-> key.value, value |-> value.value])
            IN IF ~value.ok \/ value.next > Len(text) THEN ParseError
               ELSE IF text[value.next] = "," THEN ParseMembers(text, value.next + 1, found)
               ELSE IF text[value.next] = "}" /\ value.next = Len(text)
                 THEN Parsed(found, value.next + 1)
               ELSE ParseError

loads(text) ==
    IF text # <<>> /\ text[1] = "{" THEN ParseMembers(text, 2, <<>>) ELSE ParseError

\* data.get(key, ""): the value of the last member with this key.
RECURSIVE GetFrom(_, _, _, _)
GetFrom(members, key, default, i) ==
    IF i = 0 THEN default
    ELSE IF members[i].key = <<key>> THEN members[i].value
    ELSE GetFrom(members, key, default, i - 1)
Get(members, key, default) == GetFrom(members, key, default, Len(members))

\* SettingsStore.load
load(file) ==
    IF ~file.exists THEN DefaultSettings
    ELSE LET data == loads(file.text)
         IN IF ~data.ok THEN DefaultSettings
            ELSE [base_url |-> Get(data.value, "base_url", <<>>),
                  api_key |-> Get(data.value, "api_key", <<>>),
                  model |-> Get(data.value, "model", <<>>)]

\* Path.write_text: the file is created or truncated, then written.
WriteText(file, text) == [exists |-> TRUE, text |-> text]

\* SettingsStore.save
save(file, settings) == WriteText(file, dumps(settings))

Save(settings) ==
    /\ st_saves < MaxSaves
    /\ st_file' = save(st_file, settings)
    /\ st_op' = "save"
    /\ st_saves' = st_saves + 1
    /\ st_last_saved' = settings
    /\ st_loaded' = DefaultSettings
    /\ UNCHANGED <<envVars, capVars, findVars, clientVars, peVars, chainVars, rootsVars,
                   cfgVars, waitVars, versionVars, diagVars, dashVars>>

Load ==
    /\ st_op' = "load"
    /\ st_loaded' = load(st_file)
    /\ UNCHANGED <<st_file, st_saves, st_last_saved>>
    /\ UNCHANGED <<envVars, capVars, findVars, clientVars, peVars, chainVars, rootsVars,
                   cfgVars, waitVars, versionVars, diagVars, dashVars>>

SettingsNext ==
    \/ \E settings \in SettingsChoices : Save(settings)
    \/ Load

(***************************************************************************)
(*                            Specifications                               *)
(***************************************************************************)
\* BrowserClient.__init__
NewClient == [driver |-> None, wait |-> None, initial_window_handle |-> None,
              binary_paths |-> NoPaths, alive |-> {}, started |-> 0, resolved |-> FALSE]

ClientInit ==
    /\ driver = None
    /\ wait = None
    /\ initial_window_handle = None
    /\ binary_paths = NoPaths
    /\ alive = {}
    /\ started = 0
    /\ resolved_once = FALSE
    /\ last = CallRecord("none", "ok", NewClient, 0, 0, "none", 0, 0)

FindIdle ==
    /\ fb_called = FALSE
    /\ fb_roots = <<>>
    /\ fb_patterns = <<>>
    /\ fb_result = Null

\* The directory trees the client is run on.
Tree(exists, packaged, extra, base) ==
    [exists |-> exists,
     listing |-> [r \in AllRoots |-> IF r = "chrome_portable" THEN packaged
                                     ELSE IF r = "ungoogled_chromium" THEN extra ELSE base]]
BothRoots == {"chrome_portable", "ungoogled_chromium"}
ClientFiles ==
    {Tree({}, <<>>, <<>>, <<E("chrome", "file"), E("chromedriver", "file")>>),
     Tree({}, <<>>, <<>>, <<>>),
     Tree(BothRoots, <<E("chrome", "file"), E("chromedriver", "file")>>, <<>>, <<>>),
     Tree(BothRoots, <<E("chrome", "dir"), E("chromedriver", "file")>>, <<>>, <<>>),
     Tree(BothRoots, <<E("chromium", "symlink_to_file")>>, <<>>, <<>>),
     Tree(BothRoots, <<E("chromium", "symlink_to_file")>>, <<E("chromedriver", "file")>>, <<>>),
     Tree({"chrome_portable"}, <<E("chrome.exe", "file"), E("chromedriver.exe", "file")>>,
          <<>>, <<>>)}

EmptyFiles == [exists |-> {}, listing |-> [r \in AllRoots |-> <<>>]]

(***************************************************************************)
(*                  Dashboard metrics: main.py, helpers.py                 *)
(***************************************************************************)
\* What an instance of the BrowserCapacity dataclass has: its five fields and
\* to_dict.
BrowserCapacityAttrs ==
    {"max_browsers_by_ram", "max_browsers_by_cpu", "max_browsers", "system_info",
     "avg_memory_per_browser_mb", "to_dict"}

\* metrics.get("system_info", {}) on the BrowserCapacity that was returned.
MetricsGet == IF "get" \in BrowserCapacityAttrs THEN "ok" ELSE "AttributeError"

\* The card's text: the placeholder, or str() of a number.
Placeholder == [placeholder |-> TRUE, value |-> 0]
Shown(n) == [placeholder |-> FALSE, value |-> n]

\* The table's rows: none, or one row per item of system_info.
NoRows == [empty |-> TRUE, info |-> NoInfo]
Rows(info) == [empty |-> FALSE, info |-> info]

\* _refresh_metrics enters its try block and calls
\* calculate_max_browsers_or_tabs("chrome").
RefreshStart(cpus, avail_mb) ==
    /\ ds_pc = "idle"
    /\ CalcStart("chrome", cpus, avail_mb)
    /\ ds_pc' = "calling"
    /\ UNCHANGED <<ds_card, ds_table, ds_error>>
    /\ UNCHANGED <<envVars, findVars, clientVars, peVars, chainVars, rootsVars, cfgVars,
                   waitVars, versionVars, settingsVars, diagVars>>

\* The call runs: the probe and the computation.
RefreshCalls ==
    /\ ds_pc = "calling"
    /\ \/ \E o \in PopenOutcomes : ProbePopen(o)
       \/ \E m \in MeasuredChoices : ProbeMeasure("none", m)
       \/ \E e \in MeasureErrors : ProbeMeasure(e, 0)
       \/ \E e \in BOOLEAN : ProbeFinally(e)
       \/ CalcCompute
    /\ UNCHANGED dashVars
    /\ UNCHANGED <<envVars, findVars, clientVars, peVars, chainVars, rootsVars, cfgVars,
                   waitVars, versionVars, settingsVars, diagVars>>

\* The call has returned or raised: the rest of the try block, the except
\* clause, then the card and the table.
RefreshShow ==
    /\ ds_pc = "calling"
    /\ cap_pc \in {"done", "raised"}
    /\ LET raised == IF cap_pc = "raised" THEN cap_error
                     ELSE IF MetricsGet # "ok" THEN MetricsGet ELSE "none"
       IN /\ ds_error' = raised
          /\ ds_card' = IF raised # "none" THEN Placeholder ELSE Shown(cap_result.max_browsers)
          /\ ds_table' = IF raised # "none" THEN NoRows ELSE Rows(cap_result.system_info)
    /\ ds_pc' = "shown"
    /\ UNCHANGED capVars
    /\ UNCHANGED <<envVars, findVars, clientVars, peVars, chainVars, rootsVars, cfgVars,
                   waitVars, versionVars, settingsVars, diagVars>>

DashNext ==
    \/ \E c \in 0..MaxCores, a \in AvailableRamChoices : RefreshStart(c, a)
    \/ RefreshCalls
    \/ RefreshShow

RootsIdle ==
    /\ er_op = "none"
    /\ er_args = <<>>
    /\ er_roots = <<>>
    /\ er_found = Null

ChainIdle ==
    /\ chain_pc = "idle"
    /\ chain_elements = <<>>
    /\ chain_log = <<>>

\* BrowserClient(): the default max_retries and wait_timeout.
DEFAULT_MAX_RETRIES == 5
DEFAULT_WAIT_TIMEOUT == 10
DefaultConfig ==
    /\ max_retries = DEFAULT_MAX_RETRIES
    /\ wait_timeout = DEFAULT_WAIT_TIMEOUT

WaitIdle ==
    /\ wf_op = "none"
    /\ wf_timeout = NoTimeout
    /\ wf_appears = 0
    /\ wf_effective = NoTimeout
    /\ wf_result = "none"

VersionIdle ==
    /\ rv_op = "none"
    /\ rv_runs = <<>>
    /\ rv_result = Returned("")

\* No settings file yet.
NoFile == [exists |-> FALSE, text |-> <<>>]
SettingsIdle ==
    /\ st_file = NoFile
    /\ st_op = "none"
    /\ st_saves = 0
    /\ st_last_saved = DefaultSettings
    /\ st_loaded = DefaultSettings

DiagIdle ==
    /\ dg_called = FALSE
    /\ dg_script = [browser |-> Null, driver |-> Null]
    /\ dg_client = [browser |-> Null, driver |-> Null]

DashIdle ==
    /\ ds_pc = "idle"
    /\ ds_card = Placeholder
    /\ ds_table = NoRows
    /\ ds_error = "none"

OtherIdle ==
    RootsIdle /\ ChainIdle /\ WaitIdle /\ VersionIdle /\ SettingsIdle /\ DiagIdle /\ DashIdle

\* ---- the capacity estimator ----
SpecCapacityInit ==
    /\ CapInit /\ ClientInit /\ PeInit /\ FindIdle /\ OtherIdle /\ DefaultConfig
    /\ fs = EmptyFiles
    /\ platform_name = "linux"
SpecCapacityNext == CapNext /\ UNCHANGED <<envVars, findVars, clientVars, peVars, chainVars, otherVars>>
SpecCapacity == SpecCapacityInit /\ [][SpecCapacityNext]_vars

\* ---- _find_binary ----
SpecFindInit == FindInit /\ CapInit /\ ClientInit /\ PeInit /\ OtherIdle /\ DefaultConfig
SpecFind == SpecFindInit /\ [][FindNext]_vars

\* ---- the search roots ----
\* Directory trees in which any of the configured roots may be missing; a
\* missing root has nothing below it.
RootListings == {<<>>, <<E("chrome", "file")>>, <<E("chrome", "dir")>>,
                 <<E("chromedriver", "file")>>}
RootsFiles ==
    {Tree(ex, IF "chrome_portable" \in ex THEN a ELSE <<>>,
              IF "ungoogled_chromium" \in ex THEN b ELSE <<>>, c) :
        ex \in SUBSET BothRoots, a \in RootListings, b \in RootListings, c \in RootListings}
SpecRootsInit ==
    /\ CapInit /\ ClientInit /\ PeInit /\ FindIdle /\ OtherIdle /\ DefaultConfig
    /\ fs \in RootsFiles
    /\ platform_name \in {"linux", "windows", "darwin"}
SpecRoots == SpecRootsInit /\ [][RootsNext]_vars

\* ---- process_elements_chain ----
ChainFiles == {Tree(BothRoots, <<E("chrome", "file"), E("chromedriver", "file")>>, <<>>, <<>>),
               Tree(BothRoots, <<E("chrome", "file")>>, <<>>, <<>>)}
SpecChainInit ==
    /\ CapInit /\ ClientInit /\ PeInit /\ FindIdle /\ OtherIdle
    /\ fs \in ChainFiles
    /\ platform_name = "linux"
    /\ max_retries \in 0..MaxRetries
    /\ wait_timeout = DEFAULT_WAIT_TIMEOUT
SpecChainNext ==
    \/ \E elements \in ChainArgs : ChainCall(elements)
    \/ ChainStep
    \/ \E launch \in LaunchOutcomes, o \in {"found", "timeout", "WebDriverException"} :
          PeLocate(launch, o)
    \/ \E o \in {"ok"} \cup StepErrors : PeScroll(o)
    \/ \E o \in {"ok"} \cup StepErrors : PeAction(o)
    \/ \E o \in {"ok"} \cup StepErrors : PePost(o)
    \/ PeSleep
    \/ PeReturn
    \/ ChainReturn
    \/ ChainForget
SpecChain == SpecChainInit /\ [][SpecChainNext]_vars

\* ---- the element waits ----
SpecWaitInit ==
    /\ CapInit /\ ClientInit /\ PeInit /\ FindIdle /\ OtherIdle
    /\ fs \in ChainFiles
    /\ platform_name = "linux"
    /\ max_retries = DEFAULT_MAX_RETRIES
    /\ wait_timeout \in 1..MaxTimeout
SpecWait == SpecWaitInit /\ [][WaitNext]_vars

\* ---- the version probe ----
SpecVersionInit ==
    /\ CapInit /\ ClientInit /\ PeInit /\ FindIdle /\ OtherIdle /\ DefaultConfig
    /\ fs = EmptyFiles
    /\ platform_name = "linux"
SpecVersion == SpecVersionInit /\ [][VersionNext]_vars

\* ---- the settings store ----
\* The store starts without a file, or with one that is not the JSON of an
\* object.
SpecSettingsInit ==
    /\ CapInit /\ ClientInit /\ PeInit /\ FindIdle /\ DefaultConfig
    /\ RootsIdle /\ ChainIdle /\ WaitIdle /\ VersionIdle /\ DiagIdle /\ DashIdle
    /\ fs = EmptyFiles
    /\ platform_name = "linux"
    /\ st_file \in {NoFile, WriteText(NoFile, <<"{", "\"", "a">>), WriteText(NoFile, <<>>)}
    /\ st_op = "none"
    /\ st_saves = 0
    /\ st_last_saved = DefaultSettings
    /\ st_loaded = DefaultSettings
SpecSettings == SpecSettingsInit /\ [][SettingsNext]_vars

\* ---- the diagnostics script next to the client ----
SpecDiagInit ==
    /\ CapInit /\ ClientInit /\ PeInit /\ FindIdle /\ OtherIdle /\ DefaultConfig
    /\ fs \in RootsFiles
    /\ platform_name \in {"linux", "windows", "darwin"}
SpecDiag == SpecDiagInit /\ [][RunDiagnostics]_vars

\* ---- the dashboard ----
SpecDashboardInit ==
    /\ CapInit /\ ClientInit /\ PeInit /\ FindIdle /\ OtherIdle /\ DefaultConfig
    /\ fs = EmptyFiles
    /\ platform_name = "linux"
SpecDashboard == SpecDashboardInit /\ [][DashNext]_vars

\* ---- the BrowserClient ----
Init ==
    /\ CapInit /\ PeInit /\ FindIdle /\ ClientInit /\ OtherIdle /\ DefaultConfig
    /\ fs \in ClientFiles
    /\ platform_name \in {"linux", "windows"}

Next ==
    \/ \E launch \in LaunchOutcomes : InitializeDriver(launch)
    \/ \E launch \in LaunchOutcomes : EnsureDriver(launch)
    \/ \E launch \in LaunchOutcomes, got \in BOOLEAN : OpenUrl(launch, got)
    \/ \E quit_ok \in BOOLEAN, gone \in BOOLEAN : CloseDriver(quit_ok, gone)
    \/ DescribeEnvironment
    \/ \E el \in PeElements, R \in 0..MaxRetries : PeCall(el, R)
    \/ \E launch \in LaunchOutcomes, o \in {"found", "timeout", "WebDriverException"} :
          PeLocate(launch, o)
    \/ \E o \in {"ok"} \cup StepErrors : PeScroll(o)
    \/ \E o \in {"ok"} \cup StepErrors : PeAction(o)
    \/ \E o \in {"ok"} \cup StepErrors : PePost(o)
    \/ PeSleep
    \/ PeReturn

Spec == Init /\ [][Next]_vars

(***************************************************************************)
(*                               Properties                                *)
(***************************************************************************)
ClaimTransient == {"NoSuchElementException", "StaleElementReferenceException",
                   "TimeoutException"}
EveryAttemptTransient == \A i \in 1..Len(pe_hist) : pe_hist[i] \in ClaimTransient

\* C1: a call process_element(element, R) whose attempts all fail with a
\* transient error (not found, stale reference, timeout) makes exactly R + 1
\* attempts, then returns normally: while it runs it never makes more than
\* R + 1 attempts, it only stops after attempt R + 1, and it ends returned.
C1_TransientAttempts ==
    (pe_pc # "idle" /\ EveryAttemptTransient) =>
        /\ pe_attempts <= pe_R + 1
        /\ pe_attempts - Len(pe_hist) \in {0, 1}
        /\ pe_pc = "done" => /\ pe_attempts = pe_R + 1
                             /\ Len(pe_hist) = pe_R + 1
                             /\ pe_result = "returned"
C1_Witness ==
    /\ pe_pc = "done"
    /\ pe_R >= 2
    /\ EveryAttemptTransient
    /\ pe_attempts = pe_R + 1
    /\ \E i \in 1..Len(pe_hist) : pe_hist[i] = "StaleElementReferenceException"
    /\ \E i \in 1..Len(pe_hist) : pe_hist[i] = "NoSuchElementException"

\* C2: a returned BrowserCapacity has max_browsers >= 1, equal to
\* min(max_browsers_by_ram, max_browsers_by_cpu) when that minimum is >= 1
\* and equal to 1 otherwise.
C2_MaxBrowsersFloor ==
    cap_pc = "done" =>
        LET m == IF cap_result.max_browsers_by_ram <= cap_result.max_browsers_by_cpu
                   THEN cap_result.max_browsers_by_ram
                   ELSE cap_result.max_browsers_by_cpu
        IN /\ cap_result.max_browsers >= 1
           /\ m >= 1 => cap_result.max_browsers = m
           /\ m < 1 => cap_result.max_browsers = 1
C2_Witness ==
    /\ cap_pc = "done"
    /\ cap_result.max_browsers_by_ram = 0
    /\ cap_result.max_browsers_by_cpu >= 2
    /\ cap_result.max_browsers = 1

\* C3: in a returned BrowserCapacity max_browsers_by_ram is the floor of
\* available_RAM_MB / avg_memory_per_browser_mb * 0.8 (the k with
\* k <= 4 * RAM / (5 * avg) < k + 1) for the available RAM of the snapshot it
\* carries, and max_browsers_by_cpu is the core count of that snapshot, which
\* is 1 when the OS reports none.
C3_RamAndCpuBounds ==
    cap_pc = "done" =>
        LET k == cap_result.max_browsers_by_ram
            ram == cap_result.system_info.available_ram_mb
            avg == cap_result.avg_memory_per_browser_mb
        IN /\ cap_result.system_info = system_info
           /\ avg > 0
           /\ k * 5 * avg <= 4 * ram
           /\ 4 * ram < (k + 1) * 5 * avg
           /\ cap_result.max_browsers_by_cpu = cap_result.system_info.num_cores
           /\ cap_result.max_browsers_by_cpu = (IF os_cpu_count = 0 THEN 1 ELSE os_cpu_count)
C3_Witness ==
    /\ cap_pc = "done"
    /\ os_cpu_count = 0
    /\ cap_result.max_browsers_by_cpu = 1
    /\ cap_result.max_browsers_by_ram >= 2
    /\ cap_result.max_browsers_by_ram * 5 * cap_result.avg_memory_per_browser_mb
         < 4 * cap_result.system_info.available_ram_mb

\* C4: whenever the probe fails to launch the browser process,
\* get_browser_memory_usage returns the default 350 without raising, the
\* BrowserCapacity carries 350, and the caller sees no launch failure.
C4_LaunchFailureGivesDefault ==
    popen_outcome \notin {"none", "ok"} =>
        /\ cap_pc # "raised"
        /\ cap_error = "none"
        /\ avg_memory = 350
        /\ cap_pc = "done" => cap_result.avg_memory_per_browser_mb = 350

\* The invocation of _estimate_memory_usage has returned or raised.
ProbeLeft == cap_pc \in {"compute", "done", "raised"}

C6_EnsureIdempotent ==
    last.op = "ensure_driver" =>
        /\ last.before.driver # None =>
              /\ last.result = "ok"
              /\ last.launches = 0
              /\ last.resolves = 0
              /\ driver = last.before.driver
              /\ wait = last.before.wait
              /\ initial_window_handle = last.before.initial_window_handle
              /\ started = last.before.started
              /\ alive = last.before.alive
        /\ (last.before.driver = None /\ last.result = "ok") =>
              /\ last.launches = 1
              /\ started = last.before.started + 1
              /\ driver = started
              /\ driver \in alive
C6_Witness ==
    /\ pe_pc = "idle"
    /\ last.op = "ensure_driver"
    /\ last.result = "ok"
    /\ last.before.driver # None
    /\ last.before.initial_window_handle # None
    /\ driver = last.before.driver

\* C7: after close_driver returns, driver, wait and initial_window_handle are
\* None; from a client with a session it has quit that session exactly once;
\* without a session it changes nothing, quits nothing and raises nothing.
C7_CloseDriver ==
    last.op = "close_driver" =>
        /\ last.result = "ok" =>
              /\ driver = None
              /\ wait = None
              /\ initial_window_handle = None
        /\ (last.result = "ok" /\ last.before.driver # None) =>
              /\ last.quits = 1
              /\ last.before.driver \notin alive
        /\ last.before.driver = None =>
              /\ last.result = "ok"
              /\ last.quits = 0
              /\ Client = last.before
C7_Witness ==
    /\ last.op = "close_driver"
    /\ last.result = "ok"
    /\ last.before.driver # None
    /\ last.before.wait # None
    /\ last.before.initial_window_handle # None
    /\ driver = None

SearchedRoots == IF fs.exists = {} THEN {"."} ELSE fs.exists
Present(patterns) ==
    \E r \in SearchedRoots : \E i \in 1..Len(fs.listing[r]) : \E j \in 1..Len(patterns) :
        /\ Matches(fs.listing[r][i].name, patterns[j])
        /\ fs.listing[r][i].kind \in {"file", "symlink_to_file", "symlink_to_dir",
                                      "broken_symlink"}
BrowserPresent == Present(browser_candidates(platform_name))
DriverPresent == Present(<<driver_name(platform_name)>>)

\* C9: when the browser binary or the driver binary is under none of the
\* searched roots, a call that resolves the binaries raises FileNotFoundError
\* after one search, starts no browser, and leaves the client without driver,
\* wait, window handle or cached paths.
C9_BinaryNotFound ==
    (last.resolves >= 1 /\ ~(BrowserPresent /\ DriverPresent)) =>
        /\ last.result = "FileNotFoundError"
        /\ last.resolves = 1
        /\ last.launches = 0
        /\ started = last.before.started
        /\ alive = last.before.alive
        /\ driver = None
        /\ wait = None
        /\ initial_window_handle = None
        /\ binary_paths = NoPaths
C9_Witness ==
    /\ last.op = "initialize_driver"
    /\ last.result = "FileNotFoundError"
    /\ BrowserPresent
    /\ ~DriverPresent
    /\ driver = None

\* A hit: position k of root number i holds a regular file or a symlink that
\* pattern number j matches.
Hit(i, j, k) ==
    LET entry == fs.listing[fb_roots[i]][k]
    IN /\ Matches(entry.name, fb_patterns[j])
       /\ entry.kind \in {"file", "symlink_to_file", "symlink_to_dir", "broken_symlink"}
Hits ==
    UNION {{<<i, j, k>> : k \in {n \in 1..Len(fs.listing[fb_roots[i]]) : Hit(i, j, n)}} :
              i \in 1..Len(fb_roots), j \in 1..Len(fb_patterns)}
LexLeq(a, b) ==
    \/ a[1] < b[1]
    \/ a[1] = b[1] /\ a[2] < b[2]
    \/ a[1] = b[1] /\ a[2] = b[2] /\ a[3] <= b[3]

\* C10: _find_binary returns the first match that is a regular file or a
\* symlink, roots in order, patterns in order within a root, matches in
\* traversal order within a pattern; it returns None exactly when no root
\* holds such a match.
C10_FindBinaryFirstMatch ==
    fb_called =>
        /\ fb_result = Null <=> Hits = {}
        /\ fb_result # Null =>
              \E h \in Hits :
                  /\ fb_result = Path(fb_roots[h[1]], h[3])
                  /\ \A g \in Hits : LexLeq(h, g)
C10_Witness ==
    /\ fb_called
    /\ fb_roots = <<"chrome_portable", "ungoogled_chromium">>
    /\ fb_patterns = <<"chromium", "chrome">>
    /\ fs.listing["chrome_portable"] = <<E("chrome", "dir"), E("chromium", "fifo")>>
    /\ fs.listing["ungoogled_chromium"] = <<E("chrome", "file"), E("chromium", "symlink_to_dir")>>
    /\ fb_result = Path("ungoogled_chromium", 2)

\* The positions of the configured list whose root exists, and the k-th of them.
ConfiguredExisting == {i \in 1..Len(er_args) : er_args[i] \in fs.exists}
KthExisting(k) ==
    CHOOSE i \in ConfiguredExisting : Cardinality({j \in ConfiguredExisting : j <= i}) = k
ErPatterns == IF er_op = "expand_roots" THEN ScriptChromiumPatterns
              ELSE browser_candidates(platform_name)
FallbackMatch ==
    \E i \in 1..Len(fs.listing["."]) : \E j \in 1..Len(ErPatterns) :
        /\ Matches(fs.listing["."][i].name, ErPatterns[j])
        /\ fs.listing["."][i].kind \in {"file", "symlink_to_file", "symlink_to_dir",
                                        "broken_symlink"}

\* C11: the list of search roots is never empty: it is the configured roots
\* that exist, in configured order (with their repetitions), and when the
\* configured list is empty or none of its roots exists it is the single
\* fallback root, over which the binary search returns None when nothing in
\* it matches.  This holds of the client's _candidate_roots and of the
\* script's expand_roots.
C11_SearchRoots ==
    er_op # "none" =>
        /\ er_roots # <<>>
        /\ ConfiguredExisting # {} =>
              /\ Len(er_roots) = Cardinality(ConfiguredExisting)
              /\ \A k \in 1..Len(er_roots) : er_roots[k] = er_args[KthExisting(k)]
        /\ ConfiguredExisting = {} =>
              /\ er_roots = <<".">>
              /\ ~FallbackMatch => er_found = Null
C11_Witness ==
    /\ er_op = "_candidate_roots"
    /\ fs.exists = {}
    /\ fs.listing["."] = <<E("chrome", "dir")>>
    /\ er_roots = <<".">>
    /\ er_found = Null

\* C12: an attempt of process_element that raises anything but the three
\* transient errors is the last attempt of the call, whatever retries remain:
\* the error is logged once with logger.error and the call returns normally.
C12_NonTransientEndsCall ==
    \A i \in 1..Len(pe_hist) :
        (pe_hist[i] \notin ClaimTransient /\ pe_hist[i] # "ok") =>
            /\ i = Len(pe_hist)
            /\ pe_pc = "done"
            /\ pe_result = "returned"
            /\ pe_attempts = i
            /\ pe_log[i] = "error"
C12_Witness ==
    /\ pe_pc = "done"
    /\ pe_R = 2
    /\ pe_retries = 1
    /\ pe_hist = <<"StaleElementReferenceException", "WebDriverException">>
    /\ pe_log = <<"warning", "error">>
    /\ pe_result = "returned"

\* C13: process_elements_chain processes every element of its list exactly
\* once, in list order, each by a process_element call that starts with the
\* budget max_retries; an element that ends in failure neither raises nor
\* keeps the later elements from being processed.
C13_ChainProcessesAll ==
    chain_pc # "idle" =>
        /\ Len(chain_log) <= Len(chain_elements)
        /\ \A i \in 1..Len(chain_log) :
              /\ chain_log[i].element = chain_elements[i]
              /\ chain_log[i].retries = max_retries
        /\ pe_pc # "idle" =>
              /\ chain_pc = "running"
              /\ Len(chain_log) < Len(chain_elements)
              /\ pe_element = chain_elements[Len(chain_log) + 1]
              /\ pe_R = max_retries
              /\ pe_attempts <= max_retries + 1
        /\ chain_pc = "done" => Len(chain_log) = Len(chain_elements)
C13_Witness ==
    /\ chain_pc = "done"
    /\ max_retries = 2
    /\ Len(chain_elements) = 2
    /\ Len(chain_log) = 2
    /\ chain_log[1].outcome = "WebDriverException"
    /\ chain_log[2].outcome = "ok"

\* The steps of one attempt, in the order the claim gives them.
ExpectedSteps(el) ==
    <<"locate", "scroll", "action">>
        \o (IF el.post_action # "" THEN <<"post">> ELSE <<>>) \o <<"sleep">>
IsPrefix(a, b) == Len(a) <= Len(b) /\ \A i \in 1..Len(a) : a[i] = b[i]
SuccessfulAttempts == {i \in 1..Len(pe_hist) : pe_hist[i] = "ok"}

\* C20: within one attempt of process_element the steps run in the order
\* locate, scroll, action, post-action (only when the element has one),
\* 1-second pause, each only after all earlier ones have succeeded; the pause
\* happens once per successful attempt and never in a failed one.
C20_StepOrder ==
    /\ IsPrefix(pe_steps, ExpectedSteps(pe_element))
    /\ pe_pc \in {"locate", "scroll", "action", "post", "sleep"} =>
          ExpectedSteps(pe_element)[Len(pe_steps) + 1] = pe_pc
    /\ pe_sleeps = Cardinality(SuccessfulAttempts)
    /\ pe_sleeps = 1 <=> (pe_pc = "done" /\ pe_steps = ExpectedSteps(pe_element))
    /\ \A i \in 1..Len(pe_hist) : pe_hist[i] # "ok" => pe_sleeps = 0 \/ i < Len(pe_hist)
C20_Witness ==
    /\ pe_pc = "done"
    /\ pe_element.post_action = "submit"
    /\ pe_hist = <<"TimeoutException", "ok">>
    /\ pe_steps = <<"locate", "scroll", "action", "post", "sleep">>
    /\ pe_sleeps = 1

\* C14: wait_for_element and wait_for_clickable_element never raise on a wait
\* timeout: they return None when the element is not present (clickable)
\* within the effective timeout and the element otherwise, the effective
\* timeout being the per-call timeout when one is given and the client's
\* wait_timeout when none is given.
C14_WaitEffectiveTimeout ==
    (wf_op # "none" /\ wf_result \in {"element", "None"}) =>
        LET claimed == IF wf_timeout # NoTimeout THEN wf_timeout ELSE wait_timeout
        IN /\ wf_effective = claimed
           /\ wf_result = "None" <=> wf_appears > claimed

\* C15: the version probe never propagates an error: whenever a command
\* cannot be launched or fails, the probe goes on and, with no command left,
\* returns "Unknown"; it returns a version string only when one of the two
\* commands, tried in order, exited successfully with non-empty output.
C15_VersionNeverRaises ==
    rv_op # "none" =>
        /\ rv_result.raised = "none"
        /\ (\A k \in 1..Len(rv_runs) : rv_runs[k].kind # "exit0") => rv_result.value = "Unknown"
        /\ rv_result.value # "Unknown" =>
              \E k \in 1..Len(rv_runs) :
                  /\ rv_runs[k].kind = "exit0"
                  /\ rv_result.value = Output(rv_runs[k])
                  /\ rv_result.value # ""
                  /\ \A j \in 1..(k - 1) : rv_runs[j].kind # "exit0" \/ Output(rv_runs[j]) = ""

\* C16: a load that follows a save on the same path returns the base_url,
\* api_key and model of the most recent save, whatever was saved or stored
\* before it.
C16_SettingsRoundTrip ==
    (st_op = "load" /\ st_saves >= 1) => st_loaded = st_last_saved
C16_Witness ==
    /\ st_op = "load"
    /\ st_saves = 2
    /\ st_last_saved = [base_url |-> <<"\\">>, api_key |-> <<"\"">>, model |-> <<>>]
    /\ st_loaded = st_last_saved
    /\ Len(st_file.text) = 26

\* C17: the binary paths are resolved at most once in a client's lifetime:
\* once a resolution has succeeded (in a session creation or in
\* describe_environment), no later call searches the filesystem again.
C17_ResolvedOnce == last.before.resolved => last.resolves = 0

\* C18: at every point of any sequence of client operations at most one
\* browser session started by the client is alive, and a session that is
\* alive is the one the driver handle refers to.
C18_SingleSession ==
    /\ Cardinality(alive) <= 1
    /\ \A session \in alive : driver = session

\* C19: run with its default search roots, the diagnostics script reports the
\* browser path and the driver path that the client's _resolve_binary_paths
\* finds on the same directory tree, and reports a binary as not found exactly
\* when the client finds none.
C19_ScriptMatchesClient ==
    dg_called =>
        /\ dg_script.browser = dg_client.browser
        /\ dg_script.driver = dg_client.driver

\* C21 as claimed: during one call process_element(element, R) the element's
\* click is carried out successfully at most once, whatever transient
\* failures and retries occur in that call.
C21_ActionAtMostOnce == pe_actions <= 1

\* C21, amended: the click is carried out at most once in each attempt, so at
\* most R + 1 times in the call; it is carried out more than once only for an
\* element whose post-action is submit (an attempt that fails after its click
\* is retried from the start), and a call that ends in success has clicked.
C21_ActionOncePerAttempt ==
    /\ pe_actions <= pe_attempts
    /\ pe_pc # "idle" => pe_attempts <= pe_R + 1
    /\ pe_actions >= 2 => pe_element.post_action = "submit"
    /\ (pe_pc = "done" /\ pe_sleeps = 1 /\ pe_element.action \in {"click", "USE_SCRIPT"}) =>
          pe_actions >= 1
C21_Witness ==
    /\ pe_pc = "done"
    /\ pe_element = [action |-> "USE_SCRIPT", post_action |-> "submit"]
    /\ pe_hist = <<"StaleElementReferenceException", "ok">>
    /\ pe_actions = 2

\* C22: when initialize_driver or ensure_driver raises, the client is
\* Uninitialized afterwards (driver, wait and initial_window_handle are None)
\* and no browser started by that call is left running.
C22_FailedInitLeavesUninitialized ==
    (last.op \in {"initialize_driver", "ensure_driver"} /\ last.result # "ok") =>
        /\ driver = None
        /\ wait = None
        /\ initial_window_handle = None
        /\ alive \subseteq last.before.alive

\* C23: after close_driver exits, by returning or by raising, driver, wait and
\* initial_window_handle are None.
C23_CloseAlwaysClears ==
    last.op = "close_driver" =>
        /\ driver = None
        /\ wait = None
        /\ initial_window_handle = None

\* C24: the estimate get_browser_memory_usage returns for a supported browser
\* is strictly positive, a measured sum of 0 being replaced by the default
\* 350; so calculate_max_browsers_or_tabs divides by a positive number and
\* max_browsers_by_ram is never negative.
C24_EstimatePositive ==
    /\ cap_pc \in {"compute", "done"} =>
          /\ avg_memory > 0
          /\ pending.kind = "return" =>
                avg_memory = (IF pending.measured = 0 THEN 350 ELSE pending.measured)
    /\ cap_pc = "done" =>
          /\ cap_result.avg_memory_per_browser_mb = avg_memory
          /\ cap_result.max_browsers_by_ram >= 0
C24_Witness ==
    /\ cap_pc = "done"
    /\ pending.kind = "return"
    /\ pending.measured = 0
    /\ cap_result.avg_memory_per_browser_mb = 350
    /\ cap_result.max_browsers_by_ram >= 1

\* C25: when calculate_max_browsers_or_tabs returned a BrowserCapacity,
\* _refresh_metrics shows its max_browsers in the "Simultaneous browsers" card
\* and its system_info in the system table; the placeholder is shown only
\* when the computation itself failed.
C25_DashboardShowsCapacity ==
    ds_pc = "shown" =>
        /\ cap_pc = "done" =>
              /\ ds_card = Shown(cap_result.max_browsers)
              /\ ds_table = Rows(cap_result.system_info)
        /\ ds_card.placeholder => cap_pc = "raised"

====
